---- MODULE Spec2Model ----
(***************************************************************************)
(* Model of the invoice generator (src/invoice_generator.py): the          *)
(* paginator, the VAT slot selection, and the per-invoice assembler and    *)
(* batch runner working on the shared one_pager / back_up folders.         *)
(***************************************************************************)
EXTENDS Integers, Sequences, FiniteSets, TLC

VARIABLES
    \* ---- split_dataframe called on its own (SpecSplit) ----
    sp_df,          \* the ordered rows handed to split_dataframe
    sp_rpp,         \* rows_per_page
    sp_out,         \* the returned list of page dataframes
    sp_pc,          \* "off" | "call" | "done"
    \* ---- calculate_vat_position called on its own (SpecVat) ----
    vat_amount,     \* the float argument, as [neg, milli]: sign and thousandths
    vat_middle,     \* round(vat_amount, 2), as [neg, cents]
    vat_key,        \* the returned slot name
    vat_pc,         \* "off" | "call" | "done"
    \* ---- the batch (Spec) ----
    invoice_data,   \* DataFrameManager.invoice_data: Some(sequence of invoice rows)
    backup_data,    \* DataFrameManager.backup_data: Some(sequence of backup rows), or NoValue
    positions,      \* PDFGenerator.positions: the slot names the layout map holds
    qt_data,        \* InvoiceProcessor.qt_data: sequence of <<quote ref, invoice number>>
    one_pager,      \* files of output/one_pager: set of [name, page]
    back_up,        \* files of output/back_up: set of [name, page]
    output,         \* merged documents of output/: invoice number -> sequence of pages
    export,         \* Some(rows of output/QT_Fillable_data.xlsx), or NoValue
    pc,             \* "idle" | "filter" | "front" | "backup" | "merge" | "cleanup" | "export"
    index,          \* position of the loop of process_all_invoices (1-based)
    page_dataframes,\* local of process_single_invoice
    net_amount_str, \* local of process_single_invoice
    result,         \* what the last process_all_invoices returned: "None", "True", "False"
    run,            \* number of calls of process_all_invoices so far
    faults,         \* number of file operations that raised so far (merge, unlink)
    log             \* bookkeeping of the current run and of the one before it

splitvars == <<sp_df, sp_rpp, sp_out, sp_pc>>
vatvars   == <<vat_amount, vat_middle, vat_key, vat_pc>>
datavars  == <<invoice_data, backup_data, positions>>
filevars  == <<one_pager, back_up, output, export>>
localvars == <<page_dataframes, net_amount_str>>
mainvars  == <<datavars, qt_data, filevars, pc, index, localvars, result, run, faults, log>>
vars      == <<splitvars, vatvars, mainvars>>

None == "None"

\* an Optional value: <<>> for None, <<v>> for the value v
NoValue == <<>>
Some(v) == <<v>>
ValueOf(opt) == opt[1]

\* ------------------------------------------------------------------------
\* Bounds of the model
\* ------------------------------------------------------------------------
MaxLen      == 4     \* longest row sequence handed to split_dataframe alone
MaxPageSize == 3     \* largest rows_per_page handed to split_dataframe alone
VatSpread   == 11    \* thousandths sampled on each side of a VAT pivot amount
MaxInvoices == 3     \* most rows of the invoice dataset
MaxRuns     == 2     \* most calls of process_all_invoices
MaxFaults   == 1     \* most file operations that raise (merge save, unlink)

\* ------------------------------------------------------------------------
\* Small helpers
\* ------------------------------------------------------------------------
Min(a, b) == IF a < b THEN a ELSE b

RECURSIVE SeqsUpTo(_, _)
\* all sequences over S of length at most n
SeqsUpTo(S, n) ==
    IF n = 0 THEN {<<>>}
    ELSE LET shorter == SeqsUpTo(S, n - 1)
         IN  shorter \cup {Append(s, x) : s \in {t \in shorter : Len(t) = n - 1}, x \in S}

RECURSIVE Flatten(_)
\* concatenation of a sequence of sequences, in order
Flatten(groups) ==
    IF groups = <<>> THEN <<>> ELSE Head(groups) \o Flatten(Tail(groups))

CeilDiv(n, p) == (n + p - 1) \div p

\* ------------------------------------------------------------------------
\* InvoiceProcessor.split_dataframe
\* ------------------------------------------------------------------------
\* df.iloc[a:b]: rows a..b-1 (0-based), cut at the end of df
iloc(df, a, b) == SubSeq(df, a + 1, Min(b, Len(df)))

RECURSIVE SplitLoop(_, _, _, _)
\* the while loop of split_dataframe, from current_row with dataframes so far
SplitLoop(df, rows_per_page, current_row, dataframes) ==
    IF current_row < Len(df)
    THEN SplitLoop(df, rows_per_page, current_row + rows_per_page,
                   Append(dataframes, iloc(df, current_row, current_row + rows_per_page)))
    ELSE dataframes

RECURSIVE SplitLoopSkip(_, _, _, _)
SplitLoopSkip(df, rows_per_page, current_row, dataframes) ==
    IF current_row < Len(df)
    THEN SplitLoopSkip(df, rows_per_page, current_row + rows_per_page + 1,
                       Append(dataframes, iloc(df, current_row, current_row + rows_per_page)))
    ELSE dataframes

\* mutation of split_dataframe: the loop advances one row too far per page
split_dataframe_skip(df, rows_per_page) == SplitLoopSkip(df, rows_per_page, 0, <<>>)

split_dataframe(df, rows_per_page) == SplitLoop(df, rows_per_page, 0, <<>>)

\* rows_per_page default of split_dataframe
DefaultRowsPerPage == 58

\* ------------------------------------------------------------------------
\* PDFGenerator.calculate_vat_position
\* ------------------------------------------------------------------------
RECURSIVE Digits(_)
\* decimal digits of a natural number, as str() prints them
Digits(n) ==
    IF n < 10 THEN <<n>> ELSE Append(Digits(n \div 10), (n % 10))

\* characters are modelled by their code points
ChMinus == 45
ChDot   == 46
ChSpace == 32
ChZero  == 48
DigitChars(n) == [i \in 1..Len(Digits(n)) |-> ChZero + Digits(n)[i]]

\* round(x, 2) of the float x = +/- milli/1000.  A float that prints as a
\* half-way case x.xx5 lies slightly above or below it in binary, so the
\* result is either neighbour; the sign of the float is kept (-0.001 -> -0.0).
Round2(x) ==
    LET down == x.milli \div 10
        rem  == x.milli % 10
    IN  IF rem < 5 THEN {[neg |-> x.neg, cents |-> down]}
        ELSE IF rem > 5 THEN {[neg |-> x.neg, cents |-> down + 1]}
        ELSE {[neg |-> x.neg, cents |-> down], [neg |-> x.neg, cents |-> down + 1]}

\* str() of a float with at most two decimals: shortest repr, at least one
\* fractional digit, a leading "-" for negative floats (and for -0.0)
StrFloat(r) ==
    LET whole == r.cents \div 100
        frac  == r.cents % 100
        fracs == IF frac % 10 = 0 THEN <<ChZero + (frac \div 10)>>
                 ELSE <<ChZero + (frac \div 10), ChZero + (frac % 10)>>
    IN  (IF r.neg THEN <<ChMinus>> ELSE <<>>) \o DigitChars(whole) \o <<ChDot>> \o fracs

RECURSIVE BeforeDot(_)
\* vat_string.split(".")[0]
BeforeDot(s) ==
    IF s = <<>> \/ Head(s) = ChDot THEN <<>> ELSE <<Head(s)>> \o BeforeDot(Tail(s))

\* numeric value of a rounded amount, in cents
Cents(r) == IF r.neg THEN 0 - r.cents ELSE r.cents

\* mutation of calculate_vat_position: the length test counts digits only
calculate_vat_position_digits(r) ==
    LET integ_num == Len(DigitChars(r.cents \div 100))
    IN  IF integ_num = 5 THEN "vat_dos"
        ELSE IF 100000 < Cents(r) /\ Cents(r) < 200000 THEN "vat_dos"
        ELSE "vat"

\* lines 140-150, applied to vat_middle = round(vat_amount, 2)
calculate_vat_position(r) ==
    LET vat_string == StrFloat(r)
        integ_part == BeforeDot(vat_string)
        integ_num  == Len(integ_part)
    IN  IF integ_num = 5 THEN "vat_dos"
        ELSE IF 100000 < Cents(r) /\ Cents(r) < 200000 THEN "vat_dos"
        ELSE "vat"

\* ------------------------------------------------------------------------
\* Spreadsheet cells and rows
\* ------------------------------------------------------------------------
Date(y, m, d) == [type |-> "date", year |-> y, month |-> m, day |-> d]
MonYY(m, yy)  == [type |-> "monyy", mon |-> m, yy |-> yy]   \* the text "Mon-YY"
Num(c)        == [type |-> "num", cents |-> c]
Text          == [type |-> "text"]                          \* any other text

\* PDFGenerator.format_accounting_month: date.strftime('%b-%y')
format_accounting_month(date) == MonYY(date.month, date.year % 100)

\* pd.to_datetime(value, format='%b-%y'): a date stays as it is, "Mon-YY" is
\* parsed with the two-digit year pivot of strptime (69..99 -> 19xx)
to_datetime(v) ==
    IF v.type = "date" THEN v
    ELSE Date(IF v.yy >= 69 THEN 1900 + v.yy ELSE 2000 + v.yy, v.mon, 1)

InvoiceRow(num, po, line_desc, amount) ==
    [num |-> num, po |-> po, line_desc |-> line_desc, amount |-> amount,
     vat |-> [neg |-> FALSE, milli |-> 246912]]

BackupRow(fm, po, ref, quote) == [fm |-> fm, po |-> po, ref |-> ref, quote |-> quote]

\* the invoice rows the invoice dataset is drawn from
InvoiceRows ==
    { InvoiceRow(1, "PO1", Date(2025, 1, 15), Num(1234560)),
      InvoiceRow(2, "PO2", Date(2025, 2, 3), Num(50000)),
      InvoiceRow(2, "PO1", Text, Num(50000)),
      InvoiceRow(2, "PO1", Date(2025, 1, 31), Text) }

\* k backup rows of one PO and month, with references first..first+k-1
Block(fm, po, first, k) == [i \in 1..k |-> BackupRow(fm, po, first + i - 1, Num(100 * i))]

BkSmall ==
    << BackupRow(MonYY(1, 25), "PO1", 1, Num(1000)),
       BackupRow(MonYY(1, 25), "PO2", 2, Num(2000)),
       BackupRow(MonYY(2, 25), "PO1", 3, Num(3000)),
       BackupRow(Date(2025, 1, 1), "PO1", 4, Num(4000)),
       BackupRow(MonYY(2, 25), "PO2", 5, Num(5000)) >>

\* two pages for invoice 1, the second with one row
BkTwoPages == Block(MonYY(1, 25), "PO1", 1, DefaultRowsPerPage + 1)

\* as BkTwoPages, the row of its second page with a non-numeric estimate
BkBadQuote ==
    [BkTwoPages EXCEPT ![DefaultRowsPerPage + 1] =
        BackupRow(MonYY(1, 25), "PO1", DefaultRowsPerPage + 1, Text)]

\* twelve pages for invoice 1
BkTwelvePages == Block(MonYY(1, 25), "PO1", 1, 11 * DefaultRowsPerPage + 1)

BackupDatasets == {<<>>, BkSmall, BkTwoPages, BkBadQuote}

\* slot names the renderers look up
FrontSlots ==
    {"invoice_reference", "invoice_date", "due_date", "po", "accounting_month_uno",
     "accounting_month_dos", "accounting_month_tres", "quantity", "net_amount",
     "sub_total", "total"}
BlockSlots == {"bloque_uno", "bloque_two", "bloque_three", "bloque_four"}
AllSlots   == FrontSlots \cup {"vat", "vat_dos"} \cup BlockSlots \cup {"total_two"}

\* the layout maps config.json may hold
LayoutMaps == {AllSlots, AllSlots \ {"total_two"}}

\* ------------------------------------------------------------------------
\* File names and folders
\* ------------------------------------------------------------------------
ChP == 112
ChD == 100
ChF == 102
DotPdf == <<ChDot, ChP, ChD, ChF>>

\* f"{invoice_number}.pdf"
FrontName(num) == DigitChars(num) \o DotPdf
\* f"{invoice_number} - {i}.pdf"
BackupName(num, i) == DigitChars(num) \o <<ChSpace, ChMinus, ChSpace>> \o DigitChars(i) \o DotPdf

RECURSIVE StrLess(_, _)
\* a < b for file names, as sorted() compares them
StrLess(a, b) ==
    IF b = <<>> THEN FALSE
    ELSE IF a = <<>> THEN TRUE
    ELSE IF Head(a) # Head(b) THEN Head(a) < Head(b)
    ELSE StrLess(Tail(a), Tail(b))

RECURSIVE SortedFiles(_)
\* sorted(folder.glob("*.pdf"))
SortedFiles(folder) ==
    IF folder = {} THEN <<>>
    ELSE LET first == CHOOSE f \in folder : \A g \in folder \ {f} : StrLess(f.name, g.name)
         IN  <<first>> \o SortedFiles(folder \ {first})

\* saving a document under a name replaces a file of that name
WriteFile(folder, name, page) ==
    {f \in folder : f.name # name} \cup {[name |-> name, page |-> page]}

\* what one folder may hold after the unlink loop of delete_pdf_files_in_folders:
\* nothing, or, when an unlink raises, the file it raised on and those not yet
\* reached (the exception is logged and swallowed).  Files are visited in
\* listing order, taken here to be name order.
DeleteOutcomes(folder) ==
    LET files == SortedFiles(folder)
    IN  {{files[j] : j \in i..Len(files)} : i \in 1..(Len(files) + 1)}

\* ------------------------------------------------------------------------
\* process_single_invoice, step by step
\* ------------------------------------------------------------------------
\* mutation of filtered_data: condition2 (the PO reference) is dropped
filtered_data_month_only(row, backup) ==
    LET backup_df == [i \in 1..Len(backup) |->
                        [backup[i] EXCEPT !.fm = format_accounting_month(to_datetime(@))]]
        acc_month_str == format_accounting_month(row.line_desc)
        Keep(r) == r.fm = acc_month_str
        filtered_df == SelectSeq(backup_df, Keep)
    IN  [i \in 1..Len(filtered_df) |->
            [ref |-> filtered_df[i].ref, quote |-> filtered_df[i].quote]]

\* lines 284-296: the rows of the backup dataset kept for an invoice row
filtered_data(row, backup) ==
    LET backup_df == [i \in 1..Len(backup) |->
                        [backup[i] EXCEPT !.fm = format_accounting_month(to_datetime(@))]]
        acc_month_str == format_accounting_month(row.line_desc)
        Keep(r) == r.fm = acc_month_str /\ r.po = row.po
        filtered_df == SelectSeq(backup_df, Keep)
    IN  [i \in 1..Len(filtered_df) |->
            [ref |-> filtered_df[i].ref, quote |-> filtered_df[i].quote]]

\* lines 285 and 288 raise on a month that is neither date nor "Mon-YY"
FilterRaises(row, backup) ==
    \/ row.line_desc.type # "date"
    \/ \E i \in 1..Len(backup) : backup[i].fm.type \notin {"date", "monyy"}

\* lines 299-302: the cross-reference rows of an invoice
qt_temp(row, filtered) == [i \in 1..Len(filtered) |-> <<filtered[i].ref, row.num>>]

\* f"{amount:.2f}" with the currency symbol in front
NoAmount == [sym |-> "", cents |-> 0]
NetAmountStr(row) == [sym |-> "GBP", cents |-> row.amount.cents]

FrontPage(row, vat_position_key) ==
    [kind |-> "front", inv |-> row.num, group |-> 0, refs |-> <<>>,
     slot |-> vat_position_key, total |-> <<NetAmountStr(row)>>]

\* create_front_page raises before saving when a value does not format or a
\* slot is missing from the layout map
FrontRaises(row, vat_position_key) ==
    \/ row.amount.type # "num"
    \/ ~((FrontSlots \cup {vat_position_key}) \subseteq positions)

\* the page rendered from group i (0-based) of n groups
BackupPage(num, groups, i, net) ==
    [kind |-> "backup", inv |-> num, group |-> i,
     refs |-> [j \in 1..Len(groups[i + 1]) |-> groups[i + 1][j].ref],
     slot |-> "bloque_uno",
     total |-> IF i = Len(groups) - 1 THEN <<net>> ELSE <<>>]

\* lines 245-249: the last page is saved as "... - 999.pdf"
BackupPageName(num, groups, i) ==
    IF i = Len(groups) - 1 THEN BackupName(num, 999) ELSE BackupName(num, i)

\* rendering group i raises: an estimate that does not format (line 224), a
\* block slot missing (239-242), the total slot missing on the last page (246)
BackupPageRaises(groups, i) ==
    \/ \E j \in 1..Len(groups[i + 1]) : groups[i + 1][j].quote.type # "num"
    \/ ~(BlockSlots \subseteq positions)
    \/ (i = Len(groups) - 1 /\ "total_two" \notin positions)

\* number of pages create_backup_pages saves before it returns or raises
PagesSaved(groups) ==
    LET bad == {i \in 0..(Len(groups) - 1) : BackupPageRaises(groups, i)}
    IN  IF bad = {} THEN Len(groups)
        ELSE CHOOSE i \in bad : \A k \in bad : i <= k

RECURSIVE SavePages(_, _, _, _, _)
\* the folder after the pages listed in todo are saved in order
SavePages(folder, num, groups, net, todo) ==
    IF todo = <<>> THEN folder
    ELSE SavePages(WriteFile(folder, BackupPageName(num, groups, Head(todo)),
                             BackupPage(num, groups, Head(todo), net)),
                   num, groups, net, Tail(todo))

\* mutation of merge_pdfs_in_folders: the backup folder is read first
merge_back_up_first(folder_path1, folder_path2) ==
    LET pdf_files1 == SortedFiles(folder_path1)
        pdf_files2 == SortedFiles(folder_path2)
    IN  [i \in 1..Len(pdf_files2) |-> pdf_files2[i].page]
        \o [i \in 1..Len(pdf_files1) |-> pdf_files1[i].page]

\* merge_pdfs_in_folders: the pages of the sorted files of folder 1, then of 2
merge_pdfs_in_folders(folder_path1, folder_path2) ==
    LET pdf_files1 == SortedFiles(folder_path1)
        pdf_files2 == SortedFiles(folder_path2)
    IN  [i \in 1..Len(pdf_files1) |-> pdf_files1[i].page]
        \o [i \in 1..Len(pdf_files2) |-> pdf_files2[i].page]

\* ------------------------------------------------------------------------
\* The batch: process_all_invoices and process_single_invoice as steps
\* ------------------------------------------------------------------------
NoRun == [result |-> "None", table |-> <<>>, wrote |-> FALSE, pages |-> <<>>]

\* bookkeeping at the start of a run; prev is the summary of the run before
NewLog(prev) ==
    [persisted |-> <<>>,          \* indexes whose merged document was saved, in order
     saved     |-> <<>>,          \* invoice number -> the document saved in this run
     failed_at |-> 0,             \* index of the invoice that raised, or 0
     exported  |-> FALSE,         \* to_excel ran in this run
     start_qt  |-> qt_data,       \* qt_data when the run started
     start_export |-> export,     \* the export file when the run started
     prev      |-> prev]

\* bookkeeping before the first run
NoLog ==
    [persisted |-> <<>>, saved |-> <<>>, failed_at |-> 0, exported |-> FALSE,
     start_qt |-> <<>>, start_export |-> NoValue, prev |-> NoRun]

\* page count of the document of every invoice of the dataset, by position
PageCounts ==
    [i \in 1..Len(ValueOf(invoice_data)) |->
        IF ValueOf(invoice_data)[i].num \in DOMAIN output
        THEN Len(output[ValueOf(invoice_data)[i].num]) ELSE 0]

Summary(res) ==
    [result |-> res, table |-> IF res = "True" THEN qt_data ELSE <<>>,
     wrote |-> res = "True", pages |-> PageCounts]

\* the state after InvoiceGeneratorGUI.__init__ and the two loads (or one)
Constructed ==
    /\ qt_data = <<>>
    /\ one_pager = {} /\ back_up = {}
    /\ output = <<>>
    /\ export = NoValue
    /\ pc = "idle" /\ index = 0
    /\ page_dataframes = <<>> /\ net_amount_str = NoAmount
    /\ result = "None" /\ run = 0 /\ faults = 0
    /\ log = NoLog

SplitOff == sp_df = <<>> /\ sp_rpp = 0 /\ sp_out = <<>> /\ sp_pc = "off"
VatOff   == vat_amount = None /\ vat_middle = None /\ vat_key = None /\ vat_pc = "off"

MainOff ==
    /\ invoice_data = NoValue /\ backup_data = NoValue /\ positions = {}
    /\ qt_data = <<>> /\ one_pager = {} /\ back_up = {} /\ output = <<>>
    /\ export = NoValue /\ pc = "off" /\ index = 0
    /\ page_dataframes = <<>> /\ net_amount_str = NoAmount
    /\ result = "None" /\ run = 0 /\ faults = 0
    /\ log = NoLog

\* DataFrameManager.is_ready
is_ready == invoice_data # NoValue /\ backup_data # NoValue

invoices == ValueOf(invoice_data)
backups == ValueOf(backup_data)
row == invoices[index]

\* mutation of Abort: the failed invoice is skipped and the loop goes on
AbortSkips ==
    /\ pc' = IF index < Len(invoices) THEN "filter" ELSE "export"
    /\ index' = IF index < Len(invoices) THEN index + 1 ELSE index
    /\ result' = result
    /\ log' = [log EXCEPT !.failed_at = index]
    /\ page_dataframes' = <<>>
    /\ net_amount_str' = NoAmount

\* lines 326-328 and 350-353: the exception leaves process_single_invoice and
\* the loop, process_all_invoices returns False
Abort ==
    /\ pc' = "idle"
    /\ index' = index
    /\ result' = "False"
    /\ log' = [log EXCEPT !.failed_at = index]
    /\ page_dataframes' = <<>>
    /\ net_amount_str' = NoAmount

\* lines 332-334: called before both datasets are loaded
NotReady ==
    /\ pc = "idle" /\ run < MaxRuns
    /\ ~is_ready
    /\ run' = run + 1
    /\ result' = "None"
    /\ UNCHANGED <<faults, splitvars, vatvars, datavars, qt_data, filevars, pc, index, localvars, log>>

\* lines 336-340: the loop starts (or, with no invoice row, ends at once)
StartBatch ==
    /\ pc = "idle" /\ run < MaxRuns
    /\ is_ready
    /\ run' = run + 1
    /\ log' = NewLog(IF run = 0 THEN NoRun ELSE Summary(result))
    /\ index' = IF Len(invoices) > 0 THEN 1 ELSE 0
    /\ pc' = IF Len(invoices) > 0 THEN "filter" ELSE "export"
    /\ UNCHANGED <<faults, splitvars, vatvars, datavars, qt_data, filevars, localvars, result>>

\* lines 283-306: filter the backup rows, append the cross-reference rows,
\* split into pages
Filtering ==
    /\ pc = "filter"
    /\ ~FilterRaises(row, backups)
    /\ LET filtered == filtered_data(row, backups)
       IN  /\ qt_data' = qt_data \o qt_temp(row, filtered)
           /\ page_dataframes' = split_dataframe(filtered, DefaultRowsPerPage)
    /\ pc' = "front"
    /\ UNCHANGED <<splitvars, vatvars, datavars, filevars, index, net_amount_str, result, run,
                   faults, log>>

FilteringRaises ==
    /\ pc = "filter"
    /\ FilterRaises(row, backups)
    /\ Abort
    /\ UNCHANGED <<splitvars, vatvars, datavars, qt_data, filevars, run, faults>>

\* lines 308-311: create_front_page saves the front page in one_pager
RenderingFront ==
    /\ pc = "front"
    /\ \E vat_rounded \in Round2(row.vat) :
         LET vat_position_key == calculate_vat_position(vat_rounded)
         IN  /\ ~FrontRaises(row, vat_position_key)
             /\ one_pager' = WriteFile(one_pager, FrontName(row.num),
                                       FrontPage(row, vat_position_key))
    /\ net_amount_str' = NetAmountStr(row)
    /\ pc' = "backup"
    /\ UNCHANGED <<splitvars, vatvars, datavars, qt_data, back_up, output, export, index,
                   page_dataframes, result, run, faults, log>>

RenderingFrontRaises ==
    /\ pc = "front"
    /\ \E vat_rounded \in Round2(row.vat) :
          FrontRaises(row, calculate_vat_position(vat_rounded))
    /\ Abort
    /\ UNCHANGED <<splitvars, vatvars, datavars, qt_data, filevars, run, faults>>

\* line 314: create_backup_pages saves one page per group, in order
RenderingBackup ==
    /\ pc = "backup"
    /\ PagesSaved(page_dataframes) = Len(page_dataframes)
    /\ back_up' = SavePages(back_up, row.num, page_dataframes, net_amount_str,
                            [k \in 1..Len(page_dataframes) |-> k - 1])
    /\ pc' = "merge"
    /\ UNCHANGED <<splitvars, vatvars, datavars, qt_data, one_pager, output, export, index,
                   localvars, result, run, faults, log>>

\* a page raises: the pages before it stay in back_up
RenderingBackupRaises ==
    /\ pc = "backup"
    /\ PagesSaved(page_dataframes) < Len(page_dataframes)
    /\ back_up' = SavePages(back_up, row.num, page_dataframes, net_amount_str,
                            [k \in 1..PagesSaved(page_dataframes) |-> k - 1])
    /\ Abort
    /\ UNCHANGED <<splitvars, vatvars, datavars, qt_data, one_pager, output, export, run, faults>>

\* lines 316-320: the merged document is saved under the invoice number
Merging ==
    /\ pc = "merge"
    /\ LET output_doc == merge_pdfs_in_folders(one_pager, back_up)
       IN  /\ output' = (row.num :> output_doc) @@ output
           /\ log' = [log EXCEPT !.persisted = Append(@, index),
                                 !.saved = (row.num :> output_doc) @@ @]
    /\ pc' = "cleanup"
    /\ UNCHANGED <<splitvars, vatvars, datavars, qt_data, one_pager, back_up, export, index,
                   localvars, result, run, faults>>

\* opening a page or saving the document raises (lines 119-121)
MergingRaises ==
    /\ pc = "merge"
    /\ faults < MaxFaults
    /\ faults' = faults + 1
    /\ Abort
    /\ UNCHANGED <<splitvars, vatvars, datavars, qt_data, filevars, run>>

\* number of folders whose unlink loop raised
UnlinkRaised(left1, left2) ==
    (IF left1 # {} THEN 1 ELSE 0) + (IF left2 # {} THEN 1 ELSE 0)

\* line 323, then the next turn of the loop of process_all_invoices
Cleanup ==
    /\ pc = "cleanup"
    /\ \E left1 \in DeleteOutcomes(one_pager), left2 \in DeleteOutcomes(back_up) :
          /\ faults + UnlinkRaised(left1, left2) <= MaxFaults
          /\ faults' = faults + UnlinkRaised(left1, left2)
          /\ one_pager' = left1
          /\ back_up' = left2
    /\ page_dataframes' = <<>>
    /\ net_amount_str' = NoAmount
    /\ IF index < Len(invoices)
       THEN pc' = "filter" /\ index' = index + 1
       ELSE pc' = "export" /\ index' = index
    /\ UNCHANGED <<splitvars, vatvars, datavars, qt_data, output, export, result, run, log>>

\* mutation of ExportTable: the table is also written after the loop was left
\* by an exception
ExportTableAfterAbort ==
    /\ \/ pc = "export"
       \/ (pc = "idle" /\ run > 0 /\ is_ready /\ log.failed_at # 0 /\ ~log.exported)
    /\ export' = Some(qt_data)
    /\ log' = [log EXCEPT !.exported = TRUE]
    /\ result' = IF pc = "export" THEN "True" ELSE result
    /\ pc' = "idle"
    /\ UNCHANGED <<splitvars, vatvars, datavars, qt_data, one_pager, back_up, output, index,
                   localvars, run, faults>>

\* lines 344-349: the export table is written and the run returns True
ExportTable ==
    /\ pc = "export"
    /\ export' = Some(qt_data)
    /\ log' = [log EXCEPT !.exported = TRUE]
    /\ result' = "True"
    /\ pc' = "idle"
    /\ UNCHANGED <<splitvars, vatvars, datavars, qt_data, one_pager, back_up, output, index,
                   localvars, run, faults>>

Next ==
    \/ NotReady
    \/ StartBatch
    \/ Filtering
    \/ FilteringRaises
    \/ RenderingFront
    \/ RenderingFrontRaises
    \/ RenderingBackup
    \/ RenderingBackupRaises
    \/ Merging
    \/ MergingRaises
    \/ Cleanup
    \/ ExportTable

Init ==
    /\ invoice_data \in {Some(d) : d \in SeqsUpTo(InvoiceRows, MaxInvoices)}
    /\ backup_data \in {Some(d) : d \in BackupDatasets} \cup {NoValue}
    /\ positions \in LayoutMaps
    /\ Constructed /\ SplitOff /\ VatOff

Spec == Init /\ [][Next]_vars

\* the same program on a backup dataset that fills twelve pages for one invoice
InitLarge ==
    /\ invoice_data \in {Some(d) : d \in SeqsUpTo(InvoiceRows, MaxInvoices)}
    /\ backup_data \in {Some(BkTwelvePages), NoValue}
    /\ positions \in LayoutMaps
    /\ Constructed /\ SplitOff /\ VatOff

SpecLarge == InitLarge /\ [][Next]_vars

\* ------------------------------------------------------------------------
\* SpecSplit: split_dataframe on every row sequence and page size in bounds
\* ------------------------------------------------------------------------
SplitRows == {"a", "b"}


InitSplit ==
    /\ sp_df \in SeqsUpTo(SplitRows, MaxLen)
    /\ sp_rpp \in 1..MaxPageSize
    /\ sp_out = <<>>
    /\ sp_pc = "call"
    /\ VatOff
    /\ MainOff

SplitCall ==
    /\ sp_pc = "call"
    /\ sp_out' = split_dataframe(sp_df, sp_rpp)
    /\ sp_pc' = "done"
    /\ UNCHANGED <<sp_df, sp_rpp, vatvars, mainvars>>

NextSplit == SplitCall

SpecSplit == InitSplit /\ [][NextSplit]_vars

\* ------------------------------------------------------------------------
\* SpecVat: calculate_vat_position on amounts around every pivot
\* ------------------------------------------------------------------------
\* amounts (in thousandths) where the digit count or the range test changes
VatPivots == {0, 10000, 100000, 1000000, 2000000, 10000000, 100000000}

VatAmounts ==
    {[neg |-> s, milli |-> m] :
        s \in BOOLEAN,
        m \in {p + d : p \in VatPivots, d \in (0 - VatSpread)..VatSpread} \cap Nat}

InitVat ==
    /\ vat_amount \in VatAmounts
    /\ vat_middle = None
    /\ vat_key = None
    /\ vat_pc = "call"
    /\ SplitOff
    /\ MainOff

VatCall ==
    /\ vat_pc = "call"
    /\ \E r \in Round2(vat_amount) :
          /\ vat_middle' = r
          /\ vat_key' = calculate_vat_position(r)
    /\ vat_pc' = "done"
    /\ UNCHANGED <<vat_amount, splitvars, mainvars>>

NextVat == VatCall

SpecVat == InitVat /\ [][NextVat]_vars

\* ------------------------------------------------------------------------
\* What the claims speak about, stated from the inputs
\* ------------------------------------------------------------------------
\* month and two-digit year of a month cell
MonthKey(v) == IF v.type = "date" THEN <<v.month, v.year % 100>> ELSE <<v.mon, v.yy>>

\* the backup rows of an invoice: same month and year label, same PO
Matches(inv, r) ==
    /\ inv.line_desc.type = "date"
    /\ r.fm.type \in {"date", "monyy"}
    /\ MonthKey(r.fm) = MonthKey(inv.line_desc)
    /\ r.po = inv.po

MatchingRefs(inv, backup) ==
    LET Keep(r) == Matches(inv, r)
        kept == SelectSeq(backup, Keep)
    IN  [j \in 1..Len(kept) |-> kept[j].ref]

\* one (quote reference, invoice number) pair per matching row, invoice by invoice
PairsOf(inv, backup) ==
    LET refs == MatchingRefs(inv, backup)
    IN  [j \in 1..Len(refs) |-> <<refs[j], inv.num>>]

ExpectedPairs(invs, backup) == Flatten([i \in 1..Len(invs) |-> PairsOf(invs[i], backup)])

\* the document just saved for the invoice in hand
saved_doc == output[row.num]

FileNames(folder) == {f.name : f \in folder}

\* ------------------------------------------------------------------------
\* C2: the merged document is the front page followed by the backup pages in
\* the order of the page groups (group 0, group 1, ..., last group).
\* ------------------------------------------------------------------------
DocFrontThenGroupsInOrder ==
    pc = "cleanup" =>
        /\ Len(saved_doc) = 1 + Len(page_dataframes)
        /\ saved_doc[1].kind = "front" /\ saved_doc[1].inv = row.num
        /\ \A i \in 1..Len(page_dataframes) :
              /\ saved_doc[1 + i].kind = "backup"
              /\ saved_doc[1 + i].inv = row.num
              /\ saved_doc[1 + i].group = i - 1
              /\ saved_doc[1 + i].refs =
                    [j \in 1..Len(page_dataframes[i]) |-> page_dataframes[i][j].ref]

\* ------------------------------------------------------------------------
\* C3: an invoice with n matching backup rows gets a document of 1 front page
\* plus ceil(n / page size) backup pages; with no matching row, the front
\* page alone.
\* ------------------------------------------------------------------------
DocPageCount ==
    pc = "cleanup" =>
        LET n == Len(MatchingRefs(row, backups))
        IN  /\ Len(saved_doc) = 1 + CeilDiv(n, DefaultRowsPerPage)
            /\ (n = 0 => Len(saved_doc) = 1 /\ saved_doc[1].kind = "front")

\* ------------------------------------------------------------------------
\* C4: with at least one page group, exactly one backup page of the invoice
\* carries the net-amount total, it is the page of the last group, and it is
\* the final page of the merged document.
\* ------------------------------------------------------------------------
TotalOnFinalPageOnly ==
    (pc = "cleanup" /\ Len(page_dataframes) >= 1) =>
        LET own == {i \in 1..Len(saved_doc) :
                        saved_doc[i].kind = "backup" /\ saved_doc[i].inv = row.num}
            withTotal == {i \in own : saved_doc[i].total # <<>>}
        IN  /\ Cardinality(withTotal) = 1
            /\ \A i \in withTotal :
                  /\ saved_doc[i].group = Len(page_dataframes) - 1
                  /\ saved_doc[i].total = <<net_amount_str>>
                  /\ i = Len(saved_doc)

\* ------------------------------------------------------------------------
\* C5: after a batch run over the invoices in input order the accumulator is
\* exactly the pairs of the matching rows of each invoice, in row order and
\* invoice order.
\* ------------------------------------------------------------------------
AccumulatorIsRunPairs ==
    (pc = "idle" /\ result = "True") => qt_data = ExpectedPairs(invoices, backups)

\* ------------------------------------------------------------------------
\* C6: two runs of the batch on the same loaded datasets give the same page
\* count for every invoice document and the same exported table.
\* ------------------------------------------------------------------------
SecondRunSameAsFirst ==
    (pc = "idle" /\ result = "True" /\ log.prev.result = "True") =>
        /\ export = Some(log.prev.table)
        /\ PageCounts = log.prev.pages

\* every invoice of the run was processed without error
AllProcessed ==
    /\ log.failed_at = 0
    /\ log.persisted = [i \in 1..Len(invoices) |-> i]

AbortStopsTheBatch ==
    (run > 0 /\ is_ready /\ log.failed_at # 0) =>
        LET k == log.failed_at
            before == SubSeq(invoices, 1, k - 1)
            upto   == SubSeq(invoices, 1, k)
        IN  /\ pc = "idle" /\ result = "False" /\ index = k
            /\ log.persisted = [i \in 1..(k - 1) |-> i]
            /\ DOMAIN log.saved = {invoices[j].num : j \in 1..(k - 1)}
            /\ \A num \in DOMAIN log.saved : num \in DOMAIN output /\ output[num] = log.saved[num]
            /\ \/ qt_data = log.start_qt \o ExpectedPairs(before, backups)
               \/ qt_data = log.start_qt \o ExpectedPairs(upto, backups)

\* invoice 2 of three fails after its rows were appended: the document of
\* invoice 1 is there, invoice 3 was not touched
SecondOfThreeFailed ==
    /\ pc = "idle" /\ run > 0 /\ is_ready
    /\ log.failed_at = 2
    /\ Len(invoices) = 3
    /\ log.persisted = <<1>>
    /\ invoices[3].num \notin DOMAIN output
    /\ qt_data = log.start_qt \o ExpectedPairs(SubSeq(invoices, 1, 2), backups)
    /\ qt_data # log.start_qt \o ExpectedPairs(SubSeq(invoices, 1, 1), backups)

\* ------------------------------------------------------------------------
\* C9: the pages of a processed invoice leave the working folders only after
\* its document is saved, and both folders are empty when the next invoice
\* starts.
\* ------------------------------------------------------------------------
FoldersEmptyForNextInvoice ==
    /\ pc = "cleanup" => FrontName(row.num) \in FileNames(one_pager)
    /\ (pc = "filter" /\ index > 1) => (one_pager = {} /\ back_up = {})

\* ------------------------------------------------------------------------
\* C1: for every row sequence of length n and page size p > 0,
\* split_dataframe returns ceil(n/p) groups (none when n = 0) and the groups
\* concatenated in order are the input rows.
\* ------------------------------------------------------------------------
SplitGroupsAndOrder ==
    sp_pc = "done" =>
        /\ Len(sp_out) = CeilDiv(Len(sp_df), sp_rpp)
        /\ (Len(sp_df) = 0 => sp_out = <<>>)
        /\ Flatten(sp_out) = sp_df

\* a split with several groups and a shorter last group
SplitSeveralGroups ==
    /\ sp_pc = "done"
    /\ Len(sp_out) >= 2
    /\ Len(sp_df) % sp_rpp # 0
    /\ Len(sp_out[Len(sp_out)]) < sp_rpp

\* ------------------------------------------------------------------------
\* C10 as stated: the alternate slot exactly when the integer part of the
\* rounded amount has exactly 5 digits or the rounded amount is strictly
\* between 1000 and 2000, negative amounts included.
\* ------------------------------------------------------------------------
VatFiveDigitsOrRange ==
    vat_pc = "done" =>
        (vat_key = "vat_dos" <=>
            \/ Len(Digits(vat_middle.cents \div 100)) = 5
            \/ (100000 < Cents(vat_middle) /\ Cents(vat_middle) < 200000))

\* C10 amended: the alternate slot exactly when the text before the decimal
\* point has 5 characters, a minus sign counting as one: the rounded amount
\* is in [10000, 99999.99] or in [-9999.99, -1000], or strictly between 1000
\* and 2000; the standard slot otherwise.
VatFiveCharsOrRange ==
    vat_pc = "done" =>
        /\ vat_key \in {"vat", "vat_dos"}
        /\ (vat_key = "vat_dos" <=>
              \/ (1000000 <= Cents(vat_middle) /\ Cents(vat_middle) <= 9999999)
              \/ (0 - 999999 <= Cents(vat_middle) /\ Cents(vat_middle) <= 0 - 100000)
              \/ (100000 < Cents(vat_middle) /\ Cents(vat_middle) < 200000))

\* a negative amount with a 4-digit integer part placed in the alternate slot
VatNegativeAlternate ==
    /\ vat_pc = "done"
    /\ vat_middle.neg
    /\ Len(Digits(vat_middle.cents \div 100)) = 4
    /\ vat_key = "vat_dos"

\* ------------------------------------------------------------------------
\* C11: with a layout map that lacks a slot the renderers look up, the
\* program fails at startup: no page is written to a working folder, no
\* document is persisted and no cross-reference row is appended.
\* ------------------------------------------------------------------------
NothingDoneOnIncompleteLayout ==
    ~(AllSlots \subseteq positions) =>
        /\ one_pager = {} /\ back_up = {}
        /\ output = <<>>
        /\ qt_data = <<>>

\* the matching backup rows of an invoice, with the columns the pages show
MatchingRows(inv, backup) ==
    LET Keep(r) == Matches(inv, r)
        kept == SelectSeq(backup, Keep)
    IN  [j \in 1..Len(kept) |-> [ref |-> kept[j].ref, quote |-> kept[j].quote]]

\* the rows filtering kept for the invoice in hand
FilteredIsMatching ==
    pc = "front" => Flatten(page_dataframes) = MatchingRows(row, backups)

\* ------------------------------------------------------------------------
\* C12: the rows kept for an invoice are exactly the backup rows with the
\* invoice's formatted accounting period and the invoice's PO reference, in
\* backup-dataset order; a row matching one condition only is not kept; the
\* loaded backup dataset is never changed.
\* ------------------------------------------------------------------------
FilterKeepsExactlyMatching ==
    /\ [](FilteredIsMatching)
    /\ [][backup_data' = backup_data]_vars

\* filtering kept part of a dataset that also has a row of the same period
\* and another PO, and a row of the same PO and another period
FilterLeftHalfMatches ==
    /\ pc = "front"
    /\ Flatten(page_dataframes) # <<>>
    /\ \E i \in 1..Len(backups) :
          /\ MonthKey(backups[i].fm) = MonthKey(row.line_desc)
          /\ backups[i].po # row.po
    /\ \E i \in 1..Len(backups) :
          /\ MonthKey(backups[i].fm) # MonthKey(row.line_desc)
          /\ backups[i].po = row.po

\* the pages rendered for the invoice in hand in this processing of it
PagesOfThisProcessing ==
    {FrontPage(row, key) : key \in {"vat", "vat_dos"}}
    \cup {BackupPage(row.num, page_dataframes, i, net_amount_str) :
            i \in 0..(Len(page_dataframes) - 1)}

\* ------------------------------------------------------------------------
\* C13: a persisted document holds only pages rendered for its invoice in the
\* current processing of it, never a page left in the working folders by
\* another invoice or by an earlier run.
\* ------------------------------------------------------------------------
DocHasOnlyOwnPages ==
    pc = "cleanup" =>
        \A i \in 1..Len(saved_doc) :
            /\ saved_doc[i].inv = row.num
            /\ saved_doc[i] \in PagesOfThisProcessing

\* ------------------------------------------------------------------------
\* C14: when an invoice fails, the accumulator holds no row for it: the rows
\* appended in the run are those of the invoices whose document was
\* persisted.
\* ------------------------------------------------------------------------
FailedInvoiceLeavesNoRow ==
    (pc = "idle" /\ run > 0 /\ is_ready /\ log.failed_at # 0) =>
        qt_data = log.start_qt
                  \o Flatten([j \in 1..Len(log.persisted) |->
                                PairsOf(invoices[log.persisted[j]], backups)])

====
